---- MODULE Spec2Model ----
(***************************************************************************)
(* tagg: interactive, field-by-field tag editor.                           *)
(*                                                                         *)
(* The model follows src/src/editor.rs (the generic session driver),       *)
(* src/src/album.rs and src/src/track.rs (the two field sequences and      *)
(* record builders).                                                       *)
(*                                                                         *)
(* Representation of Rust values:                                          *)
(*   String          a sequence of one-character strings                   *)
(*   u32 / i32       [neg |-> BOOLEAN, mag |-> canonical decimal digits],  *)
(*                   digits being numbers 0..9, most significant first;    *)
(*                   2^32-1 exceeds the integers TLC computes with         *)
(*   Option<T>       None, or Some(v)                                      *)
(*   Result<T, E>    Ok(v), or Err(e)                                      *)
(***************************************************************************)
EXTENDS Integers, Sequences, FiniteSets, TLC

VARIABLES
    rk,              \* record kind of the session: "album" or "track"
    state,           \* Editor.state: [input |-> the state's copy of the seed, kind |-> cursor]
    output_builder,  \* Editor.output_builder: the partial record (album_input / track_input)
    pc,              \* position of Editor::run: "loop" (top of the loop) or "returned"
    result,          \* what run returned, NoResult while it runs
    reads,           \* number of calls of readline_with_initial made by the session
    allValid,        \* every line read so far was data that set_value accepted
    answers,         \* per key: the last line submitted at its prompt that set_value accepted, or None
    called,          \* the State / OutputBuilder methods called so far (builder alone: with their order)
    last,            \* the last loop iteration (or API call): what was asked, read and called
    counter,         \* Counter.items: the entries [key, map], a map being entries [value, count]
    inserted,        \* the insert calls made on the counter so far, in order
    app              \* app::run: its position, the files found and what it has collected

vars == <<rk, state, output_builder, pc, result, reads, allValid, answers, called, last,
          counter, inserted, app>>

----------------------------------------------------------------------------
(* Option and Result *)

None == [some |-> FALSE]
Some(v) == [some |-> TRUE, value |-> v]

Ok(v) == [ok |-> TRUE, value |-> v]
Err(e) == [ok |-> FALSE, error |-> e]

----------------------------------------------------------------------------
(* Strings and numbers *)

Whitespace == {" ", "\t", "\n", "\r"}

Digits == <<"0", "1", "2", "3", "4", "5", "6", "7", "8", "9">>

IsDigit(c) == \E i \in 1..10 : Digits[i] = c

DigitValue(c) == (CHOOSE i \in 1..10 : Digits[i] = c) - 1

DigitChar(d) == Digits[d + 1]

\* str::trim: drop leading and trailing whitespace
RECURSIVE TrimStart(_)
TrimStart(s) ==
    IF s # <<>> /\ Head(s) \in Whitespace THEN TrimStart(Tail(s)) ELSE s

RECURSIVE TrimEnd(_)
TrimEnd(s) ==
    IF s # <<>> /\ s[Len(s)] \in Whitespace
    THEN TrimEnd(SubSeq(s, 1, Len(s) - 1))
    ELSE s

Trim(s) == TrimEnd(TrimStart(s))

\* magnitudes as digit sequences without leading zeros (zero is <<0>>)
U32_MAX == <<4, 2, 9, 4, 9, 6, 7, 2, 9, 5>>
I32_MAX == <<2, 1, 4, 7, 4, 8, 3, 6, 4, 7>>
I32_MIN_MAG == <<2, 1, 4, 7, 4, 8, 3, 6, 4, 8>>

RECURSIVE LexLeq(_, _)
LexLeq(a, b) ==
    IF a = <<>> THEN TRUE
    ELSE IF Head(a) # Head(b) THEN Head(a) < Head(b)
    ELSE LexLeq(Tail(a), Tail(b))

MagLeq(a, b) == Len(a) < Len(b) \/ (Len(a) = Len(b) /\ LexLeq(a, b))

\* acc * 10 + d on canonical magnitudes
MulAdd(acc, d) == IF acc = <<0>> THEN <<d>> ELSE Append(acc, d)

\* the digit loop of from_str_radix: checked multiply-and-add (or subtract,
\* for a negative number) per character, failing at the first bad character
RECURSIVE ParseDigits(_, _, _, _)
ParseDigits(s, acc, neg, limit) ==
    IF s = <<>> THEN Ok([neg |-> neg /\ acc # <<0>>, mag |-> acc])
    ELSE IF ~IsDigit(Head(s)) THEN Err("InvalidDigit")
    ELSE LET n == MulAdd(acc, DigitValue(Head(s)))
         IN  IF ~MagLeq(n, limit)
             THEN Err(IF neg THEN "NegOverflow" ELSE "PosOverflow")
             ELSE ParseDigits(Tail(s), n, neg, limit)

\* <u32 as FromStr>::from_str: an optional "+", then digits; "-" is no digit
ParseU32(s) ==
    IF s = <<>> THEN Err("Empty")
    ELSE IF s = <<"+">> \/ s = <<"-">> THEN Err("InvalidDigit")
    ELSE IF Head(s) = "+" THEN ParseDigits(Tail(s), <<0>>, FALSE, U32_MAX)
    ELSE ParseDigits(s, <<0>>, FALSE, U32_MAX)

\* the year parsed as the other numbers are, as a u32
ParseI32AsU32(s) == ParseU32(s)

\* <i32 as FromStr>::from_str: an optional "+" or "-", then digits
ParseI32(s) ==
    IF s = <<>> THEN Err("Empty")
    ELSE IF s = <<"+">> \/ s = <<"-">> THEN Err("InvalidDigit")
    ELSE IF Head(s) = "+" THEN ParseDigits(Tail(s), <<0>>, FALSE, I32_MAX)
    ELSE IF Head(s) = "-" THEN ParseDigits(Tail(s), <<0>>, TRUE, I32_MIN_MAG)
    ELSE ParseDigits(s, <<0>>, FALSE, I32_MAX)

\* Display of an integer: "-" for a negative one, then its decimal digits
FormatInt(n) ==
    (IF n.neg THEN <<"-">> ELSE <<>>) \o [i \in 1..Len(n.mag) |-> DigitChar(n.mag[i])]

DisplayInt(n) == FormatInt(n)

\* Display of a String is the string itself
DisplayString(s) == s

----------------------------------------------------------------------------
(* editor.rs: DefaultValue, StateInput, ReadlineInput *)

COMMAND_BACK == <<":", "b">>
COMMAND_QUIT == <<":", "q">>

DefaultValueNew(left, right) == [left |-> left, right |-> right]
DefaultValueLeft(left) == DefaultValueNew(left, <<>>)
DefaultValueRight(right) == DefaultValueNew(<<>>, right)

\* impl From<&Option<T>> for DefaultValue, T: Display, at T = u32 or i32
DefaultValueFromInt(value) ==
    IF value.some THEN DefaultValueLeft(DisplayInt(value.value))
    ELSE DefaultValueRight(<<>>)

\* impl From<&Option<T>> for DefaultValue, T: Display, at T = String
DefaultValueFromString(value) ==
    IF value.some THEN DefaultValueLeft(DisplayString(value.value))
    ELSE DefaultValueRight(<<>>)

StateInputRead(key, default_value) ==
    [tag |-> "Read", key |-> key, default_value |-> default_value]
StateInputInterrupted == [tag |-> "Interrupted"]
StateInputFinished == [tag |-> "Finished"]

ReadlineData(value) == [tag |-> "Data", value |-> value]
ReadlineBack == [tag |-> "Back"]
ReadlineExit == [tag |-> "Exit"]

\* read comparing the line as typed, not trimmed, with the command tokens
ReadUntrimmed(outcome) ==
    IF outcome.ok
    THEN Ok(IF outcome.value = COMMAND_BACK THEN ReadlineBack
            ELSE IF outcome.value = COMMAND_QUIT THEN ReadlineExit
            ELSE ReadlineData(Trim(outcome.value)))
    ELSE IF outcome.error \in {"Interrupted", "Eof"} THEN Ok(ReadlineExit)
    ELSE Err([tag |-> "Readline", source |-> outcome.error])

\* read taking every error of the terminal for the end of the input
ReadErrorExits(outcome) ==
    IF outcome.ok
    THEN LET value == Trim(outcome.value)
         IN  Ok(IF value = COMMAND_BACK THEN ReadlineBack
                ELSE IF value = COMMAND_QUIT THEN ReadlineExit
                ELSE ReadlineData(value))
    ELSE Ok(ReadlineExit)

\* read trimming the line for the comparison only, and passing the data as typed
ReadDataUntrimmed(outcome) ==
    IF outcome.ok
    THEN LET value == Trim(outcome.value)
         IN  Ok(IF value = COMMAND_BACK THEN ReadlineBack
                ELSE IF value = COMMAND_QUIT THEN ReadlineExit
                ELSE ReadlineData(outcome.value))
    ELSE IF outcome.error \in {"Interrupted", "Eof"} THEN Ok(ReadlineExit)
    ELSE Err([tag |-> "Readline", source |-> outcome.error])

\* Editor::read, given what readline_with_initial returned: Ok(line), or
\* Err of "Interrupted", "Eof" or another ReadlineError ("Io")
Read(outcome) ==
    IF outcome.ok
    THEN LET value == Trim(outcome.value)
         IN  Ok(IF value = COMMAND_BACK THEN ReadlineBack
                ELSE IF value = COMMAND_QUIT THEN ReadlineExit
                ELSE ReadlineData(value))
    ELSE IF outcome.error \in {"Interrupted", "Eof"} THEN Ok(ReadlineExit)
    ELSE Err([tag |-> "Readline", source |-> outcome.error])

----------------------------------------------------------------------------
(* counter.rs *)

\* the keys and values the counter is used with here
CounterKeys == {"Artist", "Album"}

CounterValues == {"Pink Floyd", "Genesis", "Yes"}

\* Counter::default: no key has a map. items is the set of the outer map's
\* entries [key, map], and a key's map the set of its entries [value, count]
CounterDefault == {}

\* Counter::insert: the key's map is created if missing, the value's entry is
\* created at 0 if missing and incremented (a u32: the increment overflows at
\* 2^32 - 1 inserts of one value, far above the number of files of a run)
CounterInsert(items, key, value) ==
    LET key_map == IF \E e \in items : e.key = key
                   THEN (CHOOSE e \in items : e.key = key).map
                   ELSE {}
        count == IF \E c \in key_map : c.value = value
                 THEN (CHOOSE c \in key_map : c.value = value).count
                 ELSE 0
    IN  {e \in items : e.key # key}
            \cup {[key |-> key,
                   map |-> {c \in key_map : c.value # value}
                               \cup {[value |-> value, count |-> count + 1]}]}

\* the orders in which a HashMap may iterate over its entries S
RECURSIVE IterationOrders(_)
IterationOrders(S) ==
    IF S = {} THEN {<<>>}
    ELSE UNION {{<<c>> \o rest : rest \in IterationOrders(S \ {c})} : c \in S}

\* Vec::sort_by_key by count, a stable sort: x goes after the elements whose
\* count is not greater
RECURSIVE SortedInsert(_, _)
SortedInsert(sorted, x) ==
    IF sorted = <<>> THEN <<x>>
    ELSE IF sorted[Len(sorted)].count <= x.count THEN Append(sorted, x)
    ELSE Append(SortedInsert(SubSeq(sorted, 1, Len(sorted) - 1), x),
                sorted[Len(sorted)])

RECURSIVE SortByKey(_)
SortByKey(values) ==
    IF values = <<>> THEN <<>>
    ELSE SortedInsert(SortByKey(SubSeq(values, 1, Len(values) - 1)), values[Len(values)])

\* most_common taking the first of the sorted values, not the last
CounterMostCommonFirst(items, key) ==
    IF ~\E e \in items : e.key = key THEN {None}
    ELSE LET key_map == (CHOOSE e \in items : e.key = key).map
         IN  {LET values == SortByKey(order)
              IN  IF values = <<>> THEN None ELSE Some(values[1].value) :
                 order \in IterationOrders(key_map)}

\* Counter::most_common: the values it can return, one per iteration order of
\* the key's HashMap: the entries collected, sorted by count, the last taken
CounterMostCommon(items, key) ==
    IF ~\E e \in items : e.key = key THEN {None}
    ELSE LET key_map == (CHOOSE e \in items : e.key = key).map
         IN  {LET values == SortByKey(order)
              IN  IF values = <<>> THEN None ELSE Some(values[Len(values)].value) :
                 order \in IterationOrders(key_map)}

----------------------------------------------------------------------------
(* track.rs *)

TrackKeys == <<"TrackNumber", "DiscNumber", "Title">>

TrackStateNew(track_input) == [input |-> track_input, kind |-> "TrackNumber"]

\* get_input with the key of the Title arm copied from the arm above it
TrackGetInputWrongKey(st) ==
    CASE st.kind = "TrackNumber" ->
            StateInputRead("TrackNumber", DefaultValueFromInt(st.input.track_number))
      [] st.kind = "DiscNumber" ->
            StateInputRead("DiscNumber", DefaultValueFromInt(st.input.disc_number))
      [] st.kind = "Title" ->
            StateInputRead("DiscNumber", DefaultValueFromString(st.input.title))
      [] st.kind = "Interrupted" -> StateInputInterrupted
      [] st.kind = "Finished" -> StateInputFinished

TrackGetInput(st) ==
    CASE st.kind = "TrackNumber" ->
            StateInputRead("TrackNumber", DefaultValueFromInt(st.input.track_number))
      [] st.kind = "DiscNumber" ->
            StateInputRead("DiscNumber", DefaultValueFromInt(st.input.disc_number))
      [] st.kind = "Title" ->
            StateInputRead("Title", DefaultValueFromString(st.input.title))
      [] st.kind = "Interrupted" -> StateInputInterrupted
      [] st.kind = "Finished" -> StateInputFinished

\* next with the disc number's arm going to Finished
TrackNextSkipsTitle(kind) ==
    CASE kind = "TrackNumber" -> "DiscNumber"
      [] kind = "DiscNumber" -> "Finished"
      [] kind = "Title" -> "Finished"
      [] kind = "Interrupted" -> "Interrupted"
      [] kind = "Finished" -> "Finished"

TrackNext(kind) ==
    CASE kind = "TrackNumber" -> "DiscNumber"
      [] kind = "DiscNumber" -> "Title"
      [] kind = "Title" -> "Finished"
      [] kind = "Interrupted" -> "Interrupted"
      [] kind = "Finished" -> "Finished"

\* prev that leaves an Interrupted cursor where it is
TrackPrevKeepsInterrupted(kind) ==
    CASE kind = "TrackNumber" -> "TrackNumber"
      [] kind = "DiscNumber" -> "TrackNumber"
      [] kind = "Title" -> "DiscNumber"
      [] kind = "Interrupted" -> "Interrupted"
      [] kind = "Finished" -> "Title"

\* the backward table sending Finished to the first field, as Interrupted is
TrackPrevFinishedToFirst(kind) ==
    CASE kind = "TrackNumber" -> "TrackNumber"
      [] kind = "DiscNumber" -> "TrackNumber"
      [] kind = "Title" -> "DiscNumber"
      [] kind = "Interrupted" -> "TrackNumber"
      [] kind = "Finished" -> "TrackNumber"

TrackPrev(kind) ==
    CASE kind = "TrackNumber" -> "TrackNumber"
      [] kind = "DiscNumber" -> "TrackNumber"
      [] kind = "Title" -> "DiscNumber"
      [] kind = "Interrupted" -> "TrackNumber"
      [] kind = "Finished" -> "Title"

TrackInterrupt(kind) == "Interrupted"

TrackFinish(kind) == "Finished"

\* set_value assigning before the parse result is known: a failed parse clears the field
TrackSetValueClearsOnError(track_input, key, value) ==
    CASE key = "TrackNumber" ->
            LET p == ParseU32(value)
            IN  [builder |-> [track_input EXCEPT
                                 !.track_number = IF p.ok THEN Some(p.value) ELSE None],
                 result |-> IF p.ok THEN Ok("unit")
                            ELSE Err([tag |-> "TrackNumber", source |-> p.error])]
      [] key = "DiscNumber" ->
            LET p == ParseU32(value)
            IN  [builder |-> [track_input EXCEPT
                                 !.disc_number = IF p.ok THEN Some(p.value) ELSE None],
                 result |-> IF p.ok THEN Ok("unit")
                            ELSE Err([tag |-> "DiscNumber", source |-> p.error])]
      [] key = "Title" ->
            [builder |-> [track_input EXCEPT !.title = Some(value)],
             result |-> Ok("unit")]

\* set_value filling only a field that is still empty (get_or_insert)
TrackSetValueKeepsFirst(track_input, key, value) ==
    CASE key = "TrackNumber" ->
            LET p == ParseU32(value)
            IN  IF p.ok
                THEN [builder |-> IF track_input.track_number.some THEN track_input
                                  ELSE [track_input EXCEPT !.track_number = Some(p.value)],
                      result |-> Ok("unit")]
                ELSE [builder |-> track_input,
                      result |-> Err([tag |-> "TrackNumber", source |-> p.error])]
      [] key = "DiscNumber" ->
            LET p == ParseU32(value)
            IN  IF p.ok
                THEN [builder |-> IF track_input.disc_number.some THEN track_input
                                  ELSE [track_input EXCEPT !.disc_number = Some(p.value)],
                      result |-> Ok("unit")]
                ELSE [builder |-> track_input,
                      result |-> Err([tag |-> "DiscNumber", source |-> p.error])]
      [] key = "Title" ->
            [builder |-> IF track_input.title.some THEN track_input
                         ELSE [track_input EXCEPT !.title = Some(value)],
             result |-> Ok("unit")]

\* TrackOutputBuilder::set_value: [builder |-> the track_input after the call,
\* result |-> Ok or Err(TrackInputError)]; `?` returns before the assignment
TrackSetValue(track_input, key, value) ==
    CASE key = "TrackNumber" ->
            LET p == ParseU32(value)
            IN  IF p.ok
                THEN [builder |-> [track_input EXCEPT !.track_number = Some(p.value)],
                      result |-> Ok("unit")]
                ELSE [builder |-> track_input,
                      result |-> Err([tag |-> "TrackNumber", source |-> p.error])]
      [] key = "DiscNumber" ->
            LET p == ParseU32(value)
            IN  IF p.ok
                THEN [builder |-> [track_input EXCEPT !.disc_number = Some(p.value)],
                      result |-> Ok("unit")]
                ELSE [builder |-> track_input,
                      result |-> Err([tag |-> "DiscNumber", source |-> p.error])]
      [] key = "Title" ->
            [builder |-> [track_input EXCEPT !.title = Some(value)],
             result |-> Ok("unit")]

\* build with the two numbers taken from each other's field
TrackBuildSwapped(track_input) ==
    IF ~track_input.track_number.some THEN Err("TrackNumber")
    ELSE IF ~track_input.disc_number.some THEN Err("DiscNumber")
    ELSE IF ~track_input.title.some THEN Err("Title")
    ELSE Ok([track_number |-> track_input.disc_number.value,
             disc_number |-> track_input.track_number.value,
             title |-> track_input.title.value])

\* TrackOutputBuilder::build: the fields are taken in the order written
TrackBuild(track_input) ==
    IF ~track_input.track_number.some THEN Err("TrackNumber")
    ELSE IF ~track_input.disc_number.some THEN Err("DiscNumber")
    ELSE IF ~track_input.title.some THEN Err("Title")
    ELSE Ok([track_number |-> track_input.track_number.value,
             disc_number |-> track_input.disc_number.value,
             title |-> track_input.title.value])

----------------------------------------------------------------------------
(* album.rs *)

AlbumKeys == <<"Artist", "AlbumArtist", "Album", "Year", "TotalTracks", "TotalDiscs">>

AlbumStateNew(album_input) == [input |-> album_input, kind |-> "Artist"]

AlbumGetInput(st) ==
    CASE st.kind = "Artist" ->
            StateInputRead("Artist", DefaultValueFromString(st.input.artist))
      [] st.kind = "AlbumArtist" ->
            StateInputRead("AlbumArtist", DefaultValueFromString(st.input.album_artist))
      [] st.kind = "Album" ->
            StateInputRead("Album", DefaultValueFromString(st.input.album))
      [] st.kind = "Year" ->
            StateInputRead("Year", DefaultValueFromInt(st.input.year))
      [] st.kind = "TotalTracks" ->
            StateInputRead("TotalTracks", DefaultValueFromInt(st.input.total_tracks))
      [] st.kind = "TotalDiscs" ->
            StateInputRead("TotalDiscs", DefaultValueFromInt(st.input.total_discs))
      [] st.kind = "Interrupted" -> StateInputInterrupted
      [] st.kind = "Finished" -> StateInputFinished

\* next with the album's arm skipping the year
AlbumNextSkipsYear(kind) ==
    CASE kind = "Artist" -> "AlbumArtist"
      [] kind = "AlbumArtist" -> "Album"
      [] kind = "Album" -> "TotalTracks"
      [] kind = "Year" -> "TotalTracks"
      [] kind = "TotalTracks" -> "TotalDiscs"
      [] kind = "TotalDiscs" -> "Finished"
      [] kind = "Interrupted" -> "Interrupted"
      [] kind = "Finished" -> "Finished"

AlbumNext(kind) ==
    CASE kind = "Artist" -> "AlbumArtist"
      [] kind = "AlbumArtist" -> "Album"
      [] kind = "Album" -> "Year"
      [] kind = "Year" -> "TotalTracks"
      [] kind = "TotalTracks" -> "TotalDiscs"
      [] kind = "TotalDiscs" -> "Finished"
      [] kind = "Interrupted" -> "Interrupted"
      [] kind = "Finished" -> "Finished"

\* the backward table skipping a field, as after a field was inserted
AlbumPrevOffByOne(kind) ==
    CASE kind = "Artist" -> "Artist"
      [] kind = "AlbumArtist" -> "Artist"
      [] kind = "Album" -> "AlbumArtist"
      [] kind = "Year" -> "AlbumArtist"
      [] kind = "TotalTracks" -> "Year"
      [] kind = "TotalDiscs" -> "TotalTracks"
      [] kind = "Interrupted" -> "Artist"
      [] kind = "Finished" -> "TotalDiscs"

AlbumPrev(kind) ==
    CASE kind = "Artist" -> "Artist"
      [] kind = "AlbumArtist" -> "Artist"
      [] kind = "Album" -> "AlbumArtist"
      [] kind = "Year" -> "Album"
      [] kind = "TotalTracks" -> "Year"
      [] kind = "TotalDiscs" -> "TotalTracks"
      [] kind = "Interrupted" -> "Artist"
      [] kind = "Finished" -> "TotalDiscs"

AlbumInterrupt(kind) == "Interrupted"

\* finish that leaves an Interrupted cursor where it is
AlbumFinishKeepsInterrupted(kind) == IF kind = "Interrupted" THEN "Interrupted" ELSE "Finished"

AlbumFinish(kind) == "Finished"

\* set_value that stores the parse result as an option (parse().ok()), so a
\* failed parse clears the field
AlbumSetValueClearsOnError(album_input, key, value) ==
    CASE key = "Artist" ->
            [builder |-> [album_input EXCEPT !.artist = Some(value)], result |-> Ok("unit")]
      [] key = "AlbumArtist" ->
            [builder |-> [album_input EXCEPT !.album_artist = Some(value)], result |-> Ok("unit")]
      [] key = "Album" ->
            [builder |-> [album_input EXCEPT !.album = Some(value)], result |-> Ok("unit")]
      [] key = "Year" ->
            LET p == ParseI32(value)
            IN  [builder |-> [album_input EXCEPT !.year = IF p.ok THEN Some(p.value) ELSE None],
                 result |-> IF p.ok THEN Ok("unit")
                            ELSE Err([tag |-> "Year", source |-> p.error])]
      [] key = "TotalTracks" ->
            LET p == ParseU32(value)
            IN  [builder |-> [album_input EXCEPT
                                 !.total_tracks = IF p.ok THEN Some(p.value) ELSE None],
                 result |-> IF p.ok THEN Ok("unit")
                            ELSE Err([tag |-> "TotalTracks", source |-> p.error])]
      [] key = "TotalDiscs" ->
            LET p == ParseU32(value)
            IN  [builder |-> [album_input EXCEPT
                                 !.total_discs = IF p.ok THEN Some(p.value) ELSE None],
                 result |-> IF p.ok THEN Ok("unit")
                            ELSE Err([tag |-> "TotalDiscs", source |-> p.error])]

\* AlbumOutputBuilder::set_value: [builder |-> the album_input after the call,
\* result |-> Ok or Err(AlbumInputError)]; `?` returns before the assignment
AlbumSetValue(album_input, key, value) ==
    CASE key = "Artist" ->
            [builder |-> [album_input EXCEPT !.artist = Some(value)], result |-> Ok("unit")]
      [] key = "AlbumArtist" ->
            [builder |-> [album_input EXCEPT !.album_artist = Some(value)], result |-> Ok("unit")]
      [] key = "Album" ->
            [builder |-> [album_input EXCEPT !.album = Some(value)], result |-> Ok("unit")]
      [] key = "Year" ->
            LET p == ParseI32(value)
            IN  IF p.ok
                THEN [builder |-> [album_input EXCEPT !.year = Some(p.value)],
                      result |-> Ok("unit")]
                ELSE [builder |-> album_input,
                      result |-> Err([tag |-> "Year", source |-> p.error])]
      [] key = "TotalTracks" ->
            LET p == ParseU32(value)
            IN  IF p.ok
                THEN [builder |-> [album_input EXCEPT !.total_tracks = Some(p.value)],
                      result |-> Ok("unit")]
                ELSE [builder |-> album_input,
                      result |-> Err([tag |-> "TotalTracks", source |-> p.error])]
      [] key = "TotalDiscs" ->
            LET p == ParseU32(value)
            IN  IF p.ok
                THEN [builder |-> [album_input EXCEPT !.total_discs = Some(p.value)],
                      result |-> Ok("unit")]
                ELSE [builder |-> album_input,
                      result |-> Err([tag |-> "TotalDiscs", source |-> p.error])]

\* build that substitutes 0 for a missing number of discs (unwrap_or_default)
AlbumBuildDefaultsDiscs(album_input) ==
    IF ~album_input.artist.some THEN Err("Artist")
    ELSE IF ~album_input.album_artist.some THEN Err("AlbumArtist")
    ELSE IF ~album_input.album.some THEN Err("Album")
    ELSE IF ~album_input.year.some THEN Err("Year")
    ELSE IF ~album_input.total_tracks.some THEN Err("TotalTracks")
    ELSE Ok([artist |-> album_input.artist.value,
             album_artist |-> album_input.album_artist.value,
             album |-> album_input.album.value,
             year |-> album_input.year.value,
             total_tracks |-> album_input.total_tracks.value,
             total_discs |-> IF album_input.total_discs.some
                             THEN album_input.total_discs.value
                             ELSE [neg |-> FALSE, mag |-> <<0>>]])

\* AlbumOutputBuilder::build: the fields are taken in the order written
AlbumBuild(album_input) ==
    IF ~album_input.artist.some THEN Err("Artist")
    ELSE IF ~album_input.album_artist.some THEN Err("AlbumArtist")
    ELSE IF ~album_input.album.some THEN Err("Album")
    ELSE IF ~album_input.year.some THEN Err("Year")
    ELSE IF ~album_input.total_tracks.some THEN Err("TotalTracks")
    ELSE IF ~album_input.total_discs.some THEN Err("TotalDiscs")
    ELSE Ok([artist |-> album_input.artist.value,
             album_artist |-> album_input.album_artist.value,
             album |-> album_input.album.value,
             year |-> album_input.year.value,
             total_tracks |-> album_input.total_tracks.value,
             total_discs |-> album_input.total_discs.value])

----------------------------------------------------------------------------
(* The State and OutputBuilder traits, dispatched on the record kind *)

StateNew(kind, input) ==
    IF kind = "album" THEN AlbumStateNew(input) ELSE TrackStateNew(input)

StateGetInput(kind, st) ==
    IF kind = "album" THEN AlbumGetInput(st) ELSE TrackGetInput(st)

StateNext(kind, st) ==
    [st EXCEPT !.kind = IF kind = "album" THEN AlbumNext(st.kind) ELSE TrackNext(st.kind)]

StatePrev(kind, st) ==
    [st EXCEPT !.kind = IF kind = "album" THEN AlbumPrev(st.kind) ELSE TrackPrev(st.kind)]

StateInterrupt(kind, st) ==
    [st EXCEPT !.kind = IF kind = "album" THEN AlbumInterrupt(st.kind)
                                          ELSE TrackInterrupt(st.kind)]

StateFinish(kind, st) ==
    [st EXCEPT !.kind = IF kind = "album" THEN AlbumFinish(st.kind) ELSE TrackFinish(st.kind)]

BuilderSetValue(kind, input, key, value) ==
    IF kind = "album" THEN AlbumSetValue(input, key, value)
    ELSE TrackSetValue(input, key, value)

BuilderBuild(kind, input) ==
    IF kind = "album" THEN AlbumBuild(input) ELSE TrackBuild(input)

----------------------------------------------------------------------------
(* Bounds, and the inputs the sessions are run on *)

\* line reads allowed to one session
MaxReads == 7

Num(k) == [neg |-> FALSE, mag |-> <<k>>]

Echoes == <<"E", "c", "h", "o", "e", "s">>

\* the lines a user submits (besides submitting the pre-filled text as it is)
Lines ==
    { <<"1">>, <<" ", "2">>, Echoes, <<" ">>, <<"\t", ":", "b">>, <<":", "q", " ">> }

\* what readline_with_initial can return at a prompt pre-filled with
\* default_value, for a user who types one of lines or accepts the hint
ReadlineOutcomes(lines, default_value) ==
    {Ok(l) : l \in lines \cup {default_value.left \o default_value.right}}
        \cup {Err("Interrupted"), Err("Eof"), Err("Io")}

NoTrackInput == [track_number |-> None, disc_number |-> None, title |-> None]

TrackSeeds ==
    [track_number : {None, Some(Num(3))}, disc_number : {None, Some(Num(1))},
     title : {None, Some(Echoes)}]

NoAlbumInput ==
    [artist |-> None, album_artist |-> None, album |-> None,
     year |-> None, total_tracks |-> None, total_discs |-> None]

AlbumSeeds ==
    { NoAlbumInput,
      [NoAlbumInput EXCEPT !.album = Some(Echoes), !.total_tracks = Some(Num(3))] }

\* app::run before it starts
NoApp == [pc |-> "none"]

Seeds(kind) == IF kind = "album" THEN AlbumSeeds ELSE TrackSeeds

Keys(kind) == IF kind = "album" THEN AlbumKeys ELSE TrackKeys

KeySet(kind) == {Keys(kind)[i] : i \in 1..Len(Keys(kind))}

----------------------------------------------------------------------------
(* A session: AlbumEditor::new / TrackEditor::new, then Editor::run *)

NoResult == [tag |-> "Running"]

NoIteration == [op |-> "new"]

\* TrackEditor::new / AlbumEditor::new: the state gets a clone of the seed,
\* the builder the seed itself; the cursor starts on the first field
Init ==
    /\ rk \in {"album", "track"}
    /\ \E seed \in Seeds(rk) :
          /\ state = StateNew(rk, seed)
          /\ output_builder = seed
    /\ pc = "loop"
    /\ result = NoResult
    /\ reads = 0
    /\ allValid = TRUE
    /\ answers = [k \in KeySet(rk) |-> None]
    /\ called = {}
    /\ last = NoIteration
    /\ counter = CounterDefault
    /\ inserted = <<>>
    /\ app = NoApp

\* the Data arm ending the session after the first accepted answer
RunDataFinishes(kind, st, builder, key, value) ==
    LET sv == BuilderSetValue(kind, builder, key, value)
    IN  IF sv.result.ok
        THEN [state |-> StateFinish(kind, st), builder |-> sv.builder,
              calls |-> {"set_value", "finish"}, op |-> "data_ok"]
        ELSE [state |-> st, builder |-> sv.builder,
              calls |-> {"set_value"}, op |-> "data_err"]

\* the Data arm storing the builder's record in the state as well
RunDataUpdatesState(kind, st, builder, key, value) ==
    LET sv == BuilderSetValue(kind, builder, key, value)
    IN  IF sv.result.ok
        THEN [state |-> [StateNext(kind, st) EXCEPT !.input = sv.builder],
              builder |-> sv.builder,
              calls |-> {"set_value", "next"}, op |-> "data_ok"]
        ELSE [state |-> st, builder |-> sv.builder,
              calls |-> {"set_value"}, op |-> "data_err"]

\* run, the arm ReadlineInput::Data(value): set_value, then next() unless it
\* failed (the error is printed and the loop goes on)
RunData(kind, st, builder, key, value) ==
    LET sv == BuilderSetValue(kind, builder, key, value)
    IN  IF sv.result.ok
        THEN [state |-> StateNext(kind, st), builder |-> sv.builder,
              calls |-> {"set_value", "next"}, op |-> "data_ok"]
        ELSE [state |-> st, builder |-> sv.builder,
              calls |-> {"set_value"}, op |-> "data_err"]

\* the Back arm resetting the builder to the seed the state holds
RunBackResetsBuilder(kind, st, builder) ==
    [state |-> StatePrev(kind, st), builder |-> st.input, calls |-> {"prev"}, op |-> "back"]

\* run, the arm ReadlineInput::Back
RunBack(kind, st, builder) ==
    [state |-> StatePrev(kind, st), builder |-> builder, calls |-> {"prev"}, op |-> "back"]

\* the Exit arm calling finish() instead of interrupt()
RunExitFinishes(kind, st, builder) ==
    [state |-> StateFinish(kind, st), builder |-> builder,
     calls |-> {"finish"}, op |-> "exit"]

\* the Exit arm leaving the cursor where it is
RunExitIgnored(kind, st, builder) ==
    [state |-> st, builder |-> builder, calls |-> {"interrupt"}, op |-> "exit"]

\* run, the arm ReadlineInput::Exit
RunExit(kind, st, builder) ==
    [state |-> StateInterrupt(kind, st), builder |-> builder,
     calls |-> {"interrupt"}, op |-> "exit"]

\* run, the match on what read returned
RunMatch(kind, st, builder, key, input) ==
    CASE input.tag = "Data" -> RunData(kind, st, builder, key, input.value)
      [] input.tag = "Back" -> RunBack(kind, st, builder)
      [] input.tag = "Exit" -> RunExit(kind, st, builder)

\* One iteration of the loop of run with the cursor on a field: get_input,
\* the line read, and the match on what it returned (the count of reads apart)
RunIteration(lines) ==
    /\ pc = "loop"
    /\ LET inp == StateGetInput(rk, state)
       IN  /\ inp.tag = "Read"
           /\ \E outcome \in ReadlineOutcomes(lines, inp.default_value) :
                LET r == Read(outcome)
                    m == RunMatch(rk, state, output_builder, inp.key, r.value)
                    it == [op |-> "read_error", from |-> state.kind, key |-> inp.key,
                           default_value |-> inp.default_value, outcome |-> outcome]
                IN  /\ IF ~r.ok
                       THEN \* read(..)? returns the error
                            /\ pc' = "returned"
                            /\ result' = Err(r.error)
                            /\ allValid' = FALSE
                            /\ last' = it
                            /\ UNCHANGED <<state, output_builder, answers, called>>
                       ELSE /\ state' = m.state
                            /\ output_builder' = m.builder
                            /\ called' = called \cup m.calls
                            /\ last' = [it EXCEPT !.op = m.op]
                            /\ allValid' = (allValid /\ m.op = "data_ok")
                            /\ answers' = IF m.op = "data_ok"
                                          THEN [answers EXCEPT ![inp.key] = Some(outcome.value)]
                                          ELSE answers
                            /\ UNCHANGED <<pc, result>>
    /\ UNCHANGED <<counter, inserted, app, rk>>

\* an iteration with a line read, in a run of at most MaxReads reads
RunRead ==
    /\ reads < MaxReads
    /\ reads' = reads + 1
    /\ RunIteration(Lines)

\* The iteration that finds the cursor Interrupted: return Ok(Interrupted)
RunInterrupted ==
    /\ pc = "loop"
    /\ StateGetInput(rk, state).tag = "Interrupted"
    /\ pc' = "returned"
    /\ result' = Ok([tag |-> "Interrupted"])
    /\ last' = [op |-> "return_interrupted", from |-> state.kind]
    /\ UNCHANGED <<counter, inserted, app, rk, state, output_builder, reads, allValid, answers, called>>

\* The iteration that finds the cursor Finished: build() and return
RunFinished ==
    /\ pc = "loop"
    /\ StateGetInput(rk, state).tag = "Finished"
    /\ LET b == BuilderBuild(rk, output_builder)
       IN  result' = IF b.ok THEN Ok([tag |-> "Finished", output |-> b.value])
                     ELSE Err([tag |-> "BuildOutput", source |-> b.error])
    /\ pc' = "returned"
    /\ called' = called \cup {"build"}
    /\ last' = [op |-> "return_finished", from |-> state.kind]
    /\ UNCHANGED <<counter, inserted, app, rk, state, output_builder, reads, allValid, answers>>

Next == RunRead \/ RunInterrupted \/ RunFinished

Spec == Init /\ [][Next]_vars

\* A run of any length: reads counts the line reads up to MaxReads and stays
\* there. The loop has no exit but its returns and the terminal returns from
\* every read, so an iteration that can run does run.
LiveLines == { <<"1">>, Echoes, <<"\t", ":", "b">>, <<":", "q", " ">> }

LiveSeeds(kind) ==
    IF kind = "album" THEN {NoAlbumInput}
    ELSE {NoTrackInput, [NoTrackInput EXCEPT !.track_number = Some(Num(3))]}

InitLive ==
    /\ rk \in {"album", "track"}
    /\ \E seed \in LiveSeeds(rk) :
          /\ state = StateNew(rk, seed)
          /\ output_builder = seed
    /\ pc = "loop"
    /\ result = NoResult
    /\ reads = 0
    /\ allValid = TRUE
    /\ answers = [k \in KeySet(rk) |-> None]
    /\ called = {}
    /\ last = NoIteration
    /\ counter = CounterDefault
    /\ inserted = <<>>
    /\ app = NoApp

RunReadLive ==
    /\ reads' = IF reads < MaxReads THEN reads + 1 ELSE reads
    /\ RunIteration(LiveLines)

NextLive == RunReadLive \/ RunInterrupted \/ RunFinished

SpecLive == InitLive /\ [][NextLive]_vars /\ WF_vars(NextLive)

----------------------------------------------------------------------------
(* The counter alone: any sequence of insert and most_common *)

MaxInserts == 4

InitCounter ==
    /\ rk = "album"
    /\ state = StateNew(rk, NoAlbumInput)
    /\ output_builder = NoAlbumInput
    /\ pc = "api"
    /\ result = NoResult
    /\ reads = 0
    /\ allValid = TRUE
    /\ answers = [k \in KeySet(rk) |-> None]
    /\ called = {}
    /\ last = NoIteration
    /\ counter = CounterDefault
    /\ inserted = <<>>
    /\ app = NoApp

CallInsert ==
    /\ Len(inserted) < MaxInserts
    /\ \E key \in CounterKeys, value \in CounterValues :
          /\ counter' = CounterInsert(counter, key, value)
          /\ inserted' = Append(inserted, <<key, value>>)
          /\ last' = [op |-> "insert", key |-> key, value |-> value]
    /\ UNCHANGED <<app, rk, state, output_builder, pc, result, reads, allValid, answers, called>>

CallMostCommon ==
    /\ \E key \in CounterKeys :
          \E value \in CounterMostCommon(counter, key) :
              last' = [op |-> "most_common", key |-> key, result |-> value]
    /\ UNCHANGED <<counter, inserted, app, rk, state, output_builder, pc, result, reads,
                   allValid, answers, called>>

NextCounter == CallInsert \/ CallMostCommon

SpecCounter == InitCounter /\ [][NextCounter]_vars

----------------------------------------------------------------------------
(* app.rs: run, from the files found to the tags written *)

\* FileInput: the tags read from one file
NoFileInput(path) ==
    [path |-> path, artist |-> None, album_artist |-> None, album |-> None, year |-> None,
     title |-> None, track_number |-> None, total_tracks |-> None, disc_number |-> None,
     total_discs |-> None]

TaggedFile == [NoFileInput("a.mp3") EXCEPT !.artist = Some(<<"1">>), !.track_number = Some(Num(1))]

BareFile == NoFileInput("b.mp3")

\* what finder::find returns: a non-empty list of files, or an error
FindResults ==
    {Ok(<<TaggedFile>>), Ok(<<TaggedFile, BareFile>>), Ok(<<BareFile, TaggedFile>>),
     Err("NoTracks")}

\* the lines typed in the sessions of a run, and the confirmation answers
AppLines == { <<"1">>, <<":", "b">>, <<":", "q">> }

AppAnswers == { <<"y", "\n">>, <<" ", "n", "\n">>, <<"x", "\n">>, <<"\n">> }

\* TrackInput::from(&FileInput)
TrackInputFrom(input) ==
    [track_number |-> input.track_number, disc_number |-> input.disc_number,
     title |-> input.title]

\* the inserts of one item with the album counted under the album artist's key
ItemInsertsAlbumAsAlbumArtist(item) ==
    (IF item.artist.some THEN << <<"Artist", item.artist.value>> >> ELSE <<>>)
    \o (IF item.album_artist.some THEN << <<"AlbumArtist", item.album_artist.value>> >> ELSE <<>>)
    \o (IF item.album.some THEN << <<"AlbumArtist", item.album.value>> >> ELSE <<>>)
    \o (IF item.year.some THEN << <<"Year", FormatInt(item.year.value)>> >> ELSE <<>>)
    \o (IF item.total_tracks.some
        THEN << <<"TotalTracks", FormatInt(item.total_tracks.value)>> >> ELSE <<>>)
    \o (IF item.total_discs.some
        THEN << <<"TotalDiscs", FormatInt(item.total_discs.value)>> >> ELSE <<>>)

\* AlbumInput::from_file_input, the inserts of one item in the order made
ItemInserts(item) ==
    (IF item.artist.some THEN << <<"Artist", item.artist.value>> >> ELSE <<>>)
    \o (IF item.album_artist.some THEN << <<"AlbumArtist", item.album_artist.value>> >> ELSE <<>>)
    \o (IF item.album.some THEN << <<"Album", item.album.value>> >> ELSE <<>>)
    \o (IF item.year.some THEN << <<"Year", FormatInt(item.year.value)>> >> ELSE <<>>)
    \o (IF item.total_tracks.some
        THEN << <<"TotalTracks", FormatInt(item.total_tracks.value)>> >> ELSE <<>>)
    \o (IF item.total_discs.some
        THEN << <<"TotalDiscs", FormatInt(item.total_discs.value)>> >> ELSE <<>>)

\* the inserts of the loop over the items
RECURSIVE FileInserts(_)
FileInserts(items) ==
    IF items = <<>> THEN <<>>
    ELSE FileInserts(SubSeq(items, 1, Len(items) - 1)) \o ItemInserts(items[Len(items)])

\* the counter after a sequence of inserts
RECURSIVE CounterAfter(_)
CounterAfter(inserts) ==
    IF inserts = <<>> THEN CounterDefault
    ELSE CounterInsert(CounterAfter(SubSeq(inserts, 1, Len(inserts) - 1)),
                       inserts[Len(inserts)][1], inserts[Len(inserts)][2])

\* .and_then(|x| x.parse().ok())
AndThenParseI32(x) ==
    IF x.some /\ ParseI32(x.value).ok THEN Some(ParseI32(x.value).value) ELSE None

AndThenParseU32(x) ==
    IF x.some /\ ParseU32(x.value).ok THEN Some(ParseU32(x.value).value) ELSE None

\* AlbumInput::from_file_input: the records it can return, given the counter
AlbumInputFrom(items) ==
    {[artist |-> artist, album_artist |-> album_artist, album |-> album,
      year |-> AndThenParseI32(year), total_tracks |-> AndThenParseU32(total_tracks),
      total_discs |-> AndThenParseU32(total_discs)] :
        artist \in CounterMostCommon(items, "Artist"),
        album_artist \in CounterMostCommon(items, "AlbumArtist"),
        album \in CounterMostCommon(items, "Album"),
        year \in CounterMostCommon(items, "Year"),
        total_tracks \in CounterMostCommon(items, "TotalTracks"),
        total_discs \in CounterMostCommon(items, "TotalDiscs")}

\* FileOutput::from((path, &album_output, track_output))
FileOutputFrom(path, album_output, track_output) ==
    [path |-> path, artist |-> album_output.artist, album_artist |-> album_output.album_artist,
     album |-> album_output.album, year |-> album_output.year, title |-> track_output.title,
     track_number |-> track_output.track_number, total_tracks |-> album_output.total_tracks,
     disc_number |-> track_output.disc_number, total_discs |-> album_output.total_discs]

\* the for loop taking the items from the last to the first
AppItemReversed(input, index) == input[Len(input) + 1 - index]

\* for item in input: the item of the index-th pass
AppItem(input, index) == input[index]

\* XEditor::new(seed): the session's variables at its start
EditorNew(kind, seed) ==
    /\ rk' = kind
    /\ state' = StateNew(kind, seed)
    /\ output_builder' = seed
    /\ pc' = "loop"
    /\ result' = NoResult
    /\ reads' = 0
    /\ allValid' = TRUE
    /\ answers' = [k \in KeySet(kind) |-> None]
    /\ called' = {}
    /\ last' = NoIteration

Session == <<rk, state, output_builder, pc, result, reads, allValid, answers, called, last>>

InitApp ==
    /\ rk = "album"
    /\ state = StateNew(rk, NoAlbumInput)
    /\ output_builder = NoAlbumInput
    /\ pc = "idle"
    /\ result = NoResult
    /\ reads = 0
    /\ allValid = TRUE
    /\ answers = [k \in KeySet(rk) |-> None]
    /\ called = {}
    /\ last = NoIteration
    /\ counter = CounterDefault
    /\ inserted = <<>>
    /\ \E found \in FindResults :
          app = [pc |-> "find", found |-> found, input |-> <<>>, album_output |-> None,
                 output |-> <<>>, index |-> 1, sessions |-> <<>>, wrong |-> FALSE,
                 answer |-> None, written |-> <<>>, ret |-> None]

\* finder::find(root_path).map_err(AppError::FindTracks)?
AppFind ==
    /\ app.pc = "find"
    /\ app' = IF app.found.ok
              THEN [app EXCEPT !.pc = "album_new", !.input = app.found.value]
              ELSE [app EXCEPT !.pc = "returned",
                               !.ret = Some(Err([tag |-> "FindTracks", source |-> app.found.error]))]
    /\ UNCHANGED <<Session, counter, inserted>>

\* AlbumInput::from_file_input(&input) and AlbumEditor::new(album_input)
AppAlbumNew ==
    /\ app.pc = "album_new"
    /\ inserted' = FileInserts(app.input)
    /\ counter' = CounterAfter(inserted')
    /\ \E album_input \in AlbumInputFrom(counter') : EditorNew("album", album_input)
    /\ app' = [app EXCEPT !.pc = "album",
                          !.sessions = Append(@, [ev |-> "start", kind |-> "album"])]

\* an iteration of the running session that reads a line
AppRunRead ==
    /\ app.pc \in {"album", "track"}
    /\ reads < MaxReads
    /\ reads' = reads + 1
    /\ RunIteration(AppLines)

\* the match on what the album session returned
AppAlbumReturned ==
    /\ app.pc = "album"
    /\ pc = "returned"
    /\ pc' = "idle"
    /\ LET ended == [app EXCEPT !.sessions = Append(@, [ev |-> "return", kind |-> "album"])]
       IN  app' = IF ~result.ok
                  THEN [ended EXCEPT !.pc = "returned",
                           !.ret = Some(Err([tag |-> "EditAlbum", source |-> result.error]))]
                  ELSE IF result.value.tag = "Interrupted"
                  THEN [ended EXCEPT !.pc = "returned", !.ret = Some(Ok("unit"))]
                  ELSE [ended EXCEPT !.pc = "for", !.album_output = Some(result.value.output)]
    /\ UNCHANGED <<rk, state, output_builder, result, reads, allValid, answers, called, last,
                   counter, inserted>>

\* one pass of the for loop up to the session: TrackInput::from(&item), TrackEditor::new
AppTrackNew ==
    /\ app.pc = "for"
    /\ LET item == AppItem(app.input, app.index)
       IN  /\ EditorNew("track", TrackInputFrom(item))
           /\ app' = [app EXCEPT !.pc = "track",
                         !.sessions = Append(@, [ev |-> "start", kind |-> "track",
                                                 path |-> item.path])]
    /\ UNCHANGED <<counter, inserted>>

\* the match going on to the next file when the track session was interrupted
AppTrackReturnedSkips ==
    /\ app.pc = "track"
    /\ pc = "returned"
    /\ pc' = "idle"
    /\ LET item == AppItem(app.input, app.index)
           ended == [app EXCEPT !.sessions = Append(@, [ev |-> "return", kind |-> "track",
                                                        path |-> item.path])]
           after == IF app.index = Len(app.input) THEN "confirm" ELSE "for"
       IN  app' = IF ~result.ok
                  THEN [ended EXCEPT !.pc = "returned",
                           !.ret = Some(Err([tag |-> "EditTrack", source |-> result.error]))]
                  ELSE IF result.value.tag = "Interrupted"
                  THEN [ended EXCEPT !.index = @ + 1, !.pc = after]
                  ELSE [ended EXCEPT
                           !.output = Append(@, FileOutputFrom(item.path, app.album_output.value,
                                                               result.value.output)),
                           !.index = @ + 1,
                           !.pc = after]
    /\ UNCHANGED <<rk, state, output_builder, result, reads, allValid, answers, called, last,
                   counter, inserted>>

\* the match on what the track session returned, the push, and the next pass
\* or the end of the for loop
AppTrackReturned ==
    /\ app.pc = "track"
    /\ pc = "returned"
    /\ pc' = "idle"
    /\ LET item == AppItem(app.input, app.index)
           ended == [app EXCEPT !.sessions = Append(@, [ev |-> "return", kind |-> "track",
                                                        path |-> item.path])]
       IN  app' = IF ~result.ok
                  THEN [ended EXCEPT !.pc = "returned",
                           !.ret = Some(Err([tag |-> "EditTrack", source |-> result.error]))]
                  ELSE IF result.value.tag = "Interrupted"
                  THEN [ended EXCEPT !.pc = "returned", !.ret = Some(Ok("unit"))]
                  ELSE [ended EXCEPT
                           !.output = Append(@, FileOutputFrom(item.path, app.album_output.value,
                                                               result.value.output)),
                           !.index = @ + 1,
                           !.pc = IF app.index = Len(app.input) THEN "confirm" ELSE "for"]
    /\ UNCHANGED <<rk, state, output_builder, result, reads, allValid, answers, called, last,
                   counter, inserted>>

\* one pass of the confirmation loop: the prompt, the line read, the match
AppConfirm ==
    /\ app.pc = "confirm"
    /\ \/ \E error \in {"PrintConfirmation", "ReadConfirmation"} :
             app' = [app EXCEPT !.pc = "returned", !.ret = Some(Err([tag |-> error]))]
       \/ \E answer \in AppAnswers :
             LET read == [app EXCEPT !.answer = Some(answer)]
             IN  app' = IF Trim(answer) = <<"y">>
                        THEN [read EXCEPT !.pc = "write", !.index = 1]
                        ELSE IF Trim(answer) = <<"n">>
                        THEN [read EXCEPT !.pc = "returned", !.ret = Some(Ok("unit"))]
                        ELSE [read EXCEPT !.wrong = TRUE]
    /\ UNCHANGED <<Session, counter, inserted>>

\* one pass of for item in output: item.write()?, then the break and Ok(())
AppWrite ==
    /\ app.pc = "write"
    /\ \E written \in BOOLEAN :
          app' = IF ~written
                 THEN [app EXCEPT !.pc = "returned",
                                  !.ret = Some(Err([tag |-> "WriteFile"]))]
                 ELSE [app EXCEPT
                          !.written = Append(@, app.output[app.index].path),
                          !.index = @ + 1,
                          !.pc = IF app.index = Len(app.output) THEN "returned" ELSE "write",
                          !.ret = IF app.index = Len(app.output) THEN Some(Ok("unit")) ELSE None]
    /\ UNCHANGED <<Session, counter, inserted>>

NextApp ==
    \/ AppFind
    \/ AppAlbumNew
    \/ AppRunRead
    \/ RunInterrupted
    \/ RunFinished
    \/ AppAlbumReturned
    \/ AppTrackNew
    \/ AppTrackReturned
    \/ AppConfirm
    \/ AppWrite

SpecApp == InitApp /\ [][NextApp]_vars

----------------------------------------------------------------------------
(* The seeds alone: from_file_input and TrackInput::from over lists of files *)

MaxFiles == 3

\* files with tags that agree, differ and are missing
SeedFiles ==
    { [NoFileInput("1.mp3") EXCEPT !.artist = Some(Echoes), !.album = Some(Echoes),
                                   !.year = Some([neg |-> TRUE, mag |-> <<1>>]),
                                   !.total_tracks = Some(Num(3)), !.title = Some(Echoes),
                                   !.track_number = Some(Num(1))],
      [NoFileInput("2.mp3") EXCEPT !.artist = Some(<<"1">>), !.album = Some(Echoes),
                                   !.year = Some(Num(3)), !.disc_number = Some(Num(1))],
      [NoFileInput("3.mp3") EXCEPT !.artist = Some(Echoes), !.album_artist = Some(<<"1">>),
                                   !.year = Some(Num(3)), !.total_discs = Some(Num(1))],
      NoFileInput("4.mp3") }

SeedInputs == UNION {[1..n -> SeedFiles] : n \in 1..MaxFiles}

InitSeed ==
    /\ rk = "album"
    /\ state = StateNew(rk, NoAlbumInput)
    /\ output_builder = NoAlbumInput
    /\ pc = "api"
    /\ result = NoResult
    /\ reads = 0
    /\ allValid = TRUE
    /\ answers = [k \in KeySet(rk) |-> None]
    /\ called = {}
    /\ last = NoIteration
    /\ counter = CounterDefault
    /\ inserted = <<>>
    /\ \E input \in SeedInputs : app = [pc |-> "seed", input |-> input]

\* AlbumInput::from_file_input(&input)
CallFromFileInput ==
    /\ app.pc = "seed"
    /\ inserted' = FileInserts(app.input)
    /\ counter' = CounterAfter(inserted')
    /\ \E album_input \in AlbumInputFrom(counter') :
          /\ output_builder' = album_input
          /\ state' = StateNew("album", album_input)
    /\ rk' = "album"
    /\ last' = [op |-> "from_file_input"]
    /\ UNCHANGED <<app, pc, result, reads, allValid, answers, called>>

\* TrackInput::from(&item), for an item of the list
CallTrackInputFrom ==
    /\ app.pc = "seed"
    /\ \E index \in 1..Len(app.input) :
          /\ output_builder' = TrackInputFrom(app.input[index])
          /\ state' = StateNew("track", output_builder')
          /\ last' = [op |-> "track_input_from", index |-> index]
    /\ rk' = "track"
    /\ UNCHANGED <<app, counter, inserted, pc, result, reads, allValid, answers, called>>

NextSeed == CallFromFileInput \/ CallTrackInputFrom

SpecSeed == InitSeed /\ [][NextSeed]_vars

----------------------------------------------------------------------------
(* The field sequence alone: any sequence of next, prev, interrupt, finish *)

InitState ==
    /\ rk \in {"album", "track"}
    /\ \E seed \in Seeds(rk) :
          /\ state = StateNew(rk, seed)
          /\ output_builder = seed
    /\ pc = "api"
    /\ result = NoResult
    /\ reads = 0
    /\ allValid = TRUE
    /\ answers = [k \in KeySet(rk) |-> None]
    /\ called = {}
    /\ last = NoIteration
    /\ counter = CounterDefault
    /\ inserted = <<>>
    /\ app = NoApp

CallNext ==
    /\ pc = "api"
    /\ state' = StateNext(rk, state)
    /\ last' = [op |-> "next", from |-> state.kind]
    /\ called' = called \cup {"next"}
    /\ UNCHANGED <<counter, inserted, app, rk, output_builder, pc, result, reads, allValid, answers>>

CallPrev ==
    /\ pc = "api"
    /\ state' = StatePrev(rk, state)
    /\ last' = [op |-> "prev", from |-> state.kind]
    /\ called' = called \cup {"prev"}
    /\ UNCHANGED <<counter, inserted, app, rk, output_builder, pc, result, reads, allValid, answers>>

CallInterrupt ==
    /\ pc = "api"
    /\ state' = StateInterrupt(rk, state)
    /\ last' = [op |-> "interrupt", from |-> state.kind]
    /\ called' = called \cup {"interrupt"}
    /\ UNCHANGED <<counter, inserted, app, rk, output_builder, pc, result, reads, allValid, answers>>

CallFinish ==
    /\ pc = "api"
    /\ state' = StateFinish(rk, state)
    /\ last' = [op |-> "finish", from |-> state.kind]
    /\ called' = called \cup {"finish"}
    /\ UNCHANGED <<counter, inserted, app, rk, output_builder, pc, result, reads, allValid, answers>>

NextState == CallNext \/ CallPrev \/ CallInterrupt \/ CallFinish

SpecState == InitState /\ [][NextState]_vars

----------------------------------------------------------------------------
(* The record builder alone: set_value calls on any partial record, then build *)

\* set_value calls made on one builder
MaxSetCalls == 1

Year1973 == [neg |-> FALSE, mag |-> <<1, 9, 7, 3>>]

\* every pattern of present and absent fields
AlbumInputs ==
    [artist : {None, Some(Echoes)}, album_artist : {None, Some(Echoes)},
     album : {None, Some(Echoes)}, year : {None, Some(Year1973)},
     total_tracks : {None, Some(Num(3))}, total_discs : {None, Some(Num(1))}]

BuilderInputs(kind) == IF kind = "album" THEN AlbumInputs ELSE TrackSeeds

\* the texts given to set_value
SetValues ==
    { <<"1">>, <<"0", "0", "7">>, <<"+", "5">>, <<"-", "1">>, <<"-", "0">>, <<"x">>, <<>>,
      <<"1", " ", "2">>, <<"-">>,
      <<"4", "2", "9", "4", "9", "6", "7", "2", "9", "5">>,
      <<"4", "2", "9", "4", "9", "6", "7", "2", "9", "6">>,
      <<"2", "1", "4", "7", "4", "8", "3", "6", "4", "7">>,
      <<"2", "1", "4", "7", "4", "8", "3", "6", "4", "8">>,
      <<"-", "2", "1", "4", "7", "4", "8", "3", "6", "4", "8">>,
      <<"-", "2", "1", "4", "7", "4", "8", "3", "6", "4", "9">> }

InitBuilder ==
    /\ rk \in {"album", "track"}
    /\ output_builder \in BuilderInputs(rk)
    /\ state = StateNew(rk, output_builder)
    /\ pc = "api"
    /\ result = NoResult
    /\ reads = 0
    /\ allValid = TRUE
    /\ answers = [k \in KeySet(rk) |-> None]
    /\ called = {}
    /\ last = NoIteration
    /\ counter = CounterDefault
    /\ inserted = <<>>
    /\ app = NoApp

CallSetValue ==
    /\ pc = "api"
    /\ Cardinality({c \in called : c[1] = "set_value"}) < MaxSetCalls
    /\ \E key \in KeySet(rk), value \in SetValues :
          LET sv == BuilderSetValue(rk, output_builder, key, value)
          IN  /\ output_builder' = sv.builder
              /\ last' = [op |-> "set_value", key |-> key, value |-> value,
                          result |-> sv.result, before |-> output_builder]
    /\ called' = called \cup {<<"set_value", Cardinality(called)>>}
    /\ UNCHANGED <<counter, inserted, app, rk, state, pc, result, reads, allValid, answers>>

CallBuild ==
    /\ pc = "api"
    /\ result' = BuilderBuild(rk, output_builder)
    /\ pc' = "built"
    /\ last' = [op |-> "build"]
    /\ called' = called \cup {<<"build", Cardinality(called)>>}
    /\ UNCHANGED <<counter, inserted, app, rk, state, output_builder, reads, allValid, answers>>

NextBuilder == CallSetValue \/ CallBuild

SpecBuilder == InitBuilder /\ [][NextBuilder]_vars

----------------------------------------------------------------------------
(* Vocabulary of the properties *)

\* the field of the partial (and of the finished) record that a key names
KeyField(key) ==
    CASE key = "Artist" -> "artist"
      [] key = "AlbumArtist" -> "album_artist"
      [] key = "Album" -> "album"
      [] key = "Year" -> "year"
      [] key = "TotalTracks" -> "total_tracks"
      [] key = "TotalDiscs" -> "total_discs"
      [] key = "TrackNumber" -> "track_number"
      [] key = "DiscNumber" -> "disc_number"
      [] key = "Title" -> "title"

ValueOf(input, key) == input[KeyField(key)]

FieldCount(kind) == Len(Keys(kind))

IsField(kind, k) == k \in KeySet(kind)

\* position of a cursor state in the field order; Finished comes after the last field
Pos(kind, k) ==
    IF k = "Finished" THEN FieldCount(kind) + 1
    ELSE CHOOSE i \in 1..FieldCount(kind) : Keys(kind)[i] = k

\* the cursor state at a position
At(kind, i) == IF i = FieldCount(kind) + 1 THEN "Finished" ELSE Keys(kind)[i]

TextKeys == {"Artist", "AlbumArtist", "Album", "Title"}

\* the typed value a submitted line stands for at the prompt of a key
Typed(key, line) ==
    IF key \in TextKeys THEN Trim(line)
    ELSE IF key = "Year" THEN ParseI32(Trim(line)).value
    ELSE ParseU32(Trim(line)).value

\* the hint that shows an optional value: its text before the cursor, or nothing
HintOf(key, value) ==
    IF ~value.some THEN [left |-> <<>>, right |-> <<>>]
    ELSE [left |-> IF key \in TextKeys THEN value.value ELSE FormatInt(value.value),
          right |-> <<>>]

Finished(output) == Ok([tag |-> "Finished", output |-> output])

Interrupted == Ok([tag |-> "Interrupted"])

IsFinished == pc = "returned" /\ result.ok /\ result.value.tag = "Finished"

\* what a line read returned, as the user meant it
IsBack(outcome) == outcome.ok /\ Trim(outcome.value) = COMMAND_BACK

IsAbort(outcome) ==
    \/ outcome.ok /\ Trim(outcome.value) = COMMAND_QUIT
    \/ ~outcome.ok /\ outcome.error \in {"Interrupted", "Eof"}

IsData(outcome) == outcome.ok /\ Trim(outcome.value) \notin {COMMAND_BACK, COMMAND_QUIT}

IsValidAnswer(key, outcome) ==
    /\ IsData(outcome)
    /\ \/ key \in TextKeys
       \/ key = "Year" /\ ParseI32(Trim(outcome.value)).ok
       \/ key \notin TextKeys \cup {"Year"} /\ ParseU32(Trim(outcome.value)).ok

\* the step read a line
LineRead == reads' = reads + 1

----------------------------------------------------------------------------
(* C1 *)

\* C1: a session in which every line read is a valid answer has its cursor at
\* position (number of reads) + 1 throughout, so it is Finished after exactly
\* field-count reads; run then returns Finished(record), each field of the
\* record being the answer submitted at that field's prompt.
C1_ValidAnswersFinish ==
    allValid =>
        /\ reads <= FieldCount(rk)
        /\ state.kind = At(rk, reads + 1)
        /\ pc = "returned" =>
              /\ reads = FieldCount(rk)
              /\ IsFinished
              /\ \A key \in KeySet(rk) :
                    /\ answers[key].some
                    /\ ValueOf(result.value.output, key) = Typed(key, answers[key].value)

\* answers "1", "1", "Echoes" to an unseeded track session
C1_Witness ==
    /\ rk = "track"
    /\ state.input = NoTrackInput
    /\ allValid
    /\ reads = 3
    /\ answers = [k \in KeySet("track") |->
                     IF k = "Title" THEN Some(Echoes) ELSE Some(<<"1">>)]
    /\ result = Finished([track_number |-> Num(1), disc_number |-> Num(1), title |-> Echoes])

----------------------------------------------------------------------------
(* C2 *)

\* C2: at every prompt of a field F the default-value hint returned by
\* get_input is the hint of the builder's current value for F (the last accepted
\* answer, else the seed, else empty).
C2_HintIsCurrentValue ==
    LET inp == StateGetInput(rk, state)
    IN  (pc = "loop" /\ inp.tag = "Read") =>
            inp.default_value = HintOf(inp.key, ValueOf(output_builder, inp.key))

----------------------------------------------------------------------------
(* C3 *)

\* C3: a step that reads data which does not parse for the prompted field
\* leaves every field of the builder as it was, calls set_value and nothing
\* else (no next()), and leaves the cursor on the same field, which is the
\* field of the next prompt.
C3_ParseFailureChangesNothing ==
    [][(LineRead /\ IsData(last'.outcome) /\ ~IsValidAnswer(last'.key, last'.outcome)) =>
          /\ last'.key = state.kind
          /\ \A key \in KeySet(rk) :
                ValueOf(output_builder', key) = ValueOf(output_builder, key)
          /\ called' \ called \subseteq {"set_value"}
          /\ "set_value" \in called'
          /\ state' = state
          /\ pc' = "loop"
          /\ StateGetInput(rk, state').tag = "Read"
          /\ StateGetInput(rk, state').key = last'.key]_vars

\* "Echoes" submitted at the total-tracks prompt of an album seeded with 3 tracks
C3_Witness ==
    /\ rk = "album"
    /\ last.op = "data_err"
    /\ last.key = "TotalTracks"
    /\ last.outcome = Ok(Echoes)
    /\ state.kind = "TotalTracks"
    /\ output_builder.total_tracks = Some(Num(3))

----------------------------------------------------------------------------
(* C4 *)

\* C4: a step that reads the back command calls prev() on the field sequence
\* (the cursor goes to the previous field, or stays on the first) and nothing
\* on the builder: every field value of the builder is unchanged.
C4_BackKeepsBuilder ==
    [][(LineRead /\ IsBack(last'.outcome)) =>
          /\ called' \ called \subseteq {"prev"}
          /\ "prev" \in called'
          /\ output_builder' = output_builder
          /\ state'.kind = At(rk, IF Pos(rk, state.kind) = 1 THEN 1
                                  ELSE Pos(rk, state.kind) - 1)
          /\ state'.input = state.input]_vars

\* the back command at the disc-number prompt, after track number 2 was accepted
C4_Witness ==
    /\ rk = "track"
    /\ last.op = "back"
    /\ last.from = "DiscNumber"
    /\ state.kind = "TrackNumber"
    /\ state.input = NoTrackInput
    /\ output_builder.track_number = Some(Num(2))

----------------------------------------------------------------------------
(* C5 *)

\* C5: a step that reads the quit command, an interrupt or end-of-input at any
\* field prompt moves the cursor to Interrupted; the iteration that follows
\* returns Interrupted without reading a line or calling anything; and a
\* session that returned Interrupted never called build().
C5_AbortInterrupts ==
    /\ [][(LineRead /\ IsAbort(last'.outcome)) =>
             /\ state'.kind = "Interrupted"
             /\ pc' = "loop"
             /\ output_builder' = output_builder]_vars
    /\ [][(pc = "loop" /\ state.kind = "Interrupted") =>
             /\ pc' = "returned"
             /\ result' = Interrupted
             /\ reads' = reads
             /\ called' = called]_vars
    /\ []((state.kind = "Interrupted" \/ result = Interrupted) => "build" \notin called)

\* the abort at the first prompt of a session, and the return that follows
C5_Witness ==
    /\ pc = "returned"
    /\ result = Interrupted
    /\ reads = 1
    /\ called = {"interrupt"}

----------------------------------------------------------------------------
(* C6 *)

\* C6: the builder changes only by a valid answer, and then only in the field
\* the cursor is on (the key get_input returned); the cursor leaves a field
\* forward only in the step in which a valid answer for that very field was
\* stored; every other change of the cursor is a retreat by the back command
\* or the move to Interrupted by an abort.
C6_LockStep ==
    [][/\ (output_builder' # output_builder) =>
             /\ IsField(rk, state.kind)
             /\ last'.key = state.kind
             /\ IsValidAnswer(state.kind, last'.outcome)
             /\ \A key \in KeySet(rk) \ {state.kind} :
                   ValueOf(output_builder', key) = ValueOf(output_builder, key)
       /\ ("set_value" \in called' \ called) => (last'.key = state.kind)
       /\ (state'.kind # state.kind) =>
             /\ IsField(rk, state.kind)
             /\ LineRead
             /\ \/ /\ IsValidAnswer(state.kind, last'.outcome)
                   /\ ValueOf(output_builder', state.kind)
                         = Some(Typed(state.kind, last'.outcome.value))
                   /\ state'.kind = At(rk, Pos(rk, state.kind) + 1)
                \/ /\ IsBack(last'.outcome)
                   /\ state'.kind = At(rk, Pos(rk, state.kind) - 1)
                \/ /\ IsAbort(last'.outcome)
                   /\ state'.kind = "Interrupted"]_vars

\* a valid answer at the disc-number prompt moved the cursor on to the title
C6_Witness ==
    /\ rk = "track"
    /\ last.op = "data_ok"
    /\ last.key = "DiscNumber"
    /\ state.kind = "Title"
    /\ output_builder.disc_number = Some(Typed("DiscNumber", last.outcome.value))
    /\ "prev" \in called

----------------------------------------------------------------------------
(* C7 *)

\* C7: whenever the cursor is at position i (Finished being the position after
\* the last field) every field before i holds a value in the builder; so a
\* Finished cursor finds all fields present, build() succeeds, and run never
\* returns EditorError::BuildOutput.
C7_VisitedFieldsPresent ==
    /\ (state.kind # "Interrupted") =>
          \A j \in 1..(Pos(rk, state.kind) - 1) :
              ValueOf(output_builder, Keys(rk)[j]).some
    /\ (state.kind = "Finished") => BuilderBuild(rk, output_builder).ok
    /\ (pc = "returned" /\ state.kind = "Finished") => IsFinished
    /\ (pc = "returned" /\ ~result.ok) => result.error.tag # "BuildOutput"

\* an unseeded session finished after invalid answers and back commands
C7_Witness ==
    /\ rk = "track"
    /\ state.input = NoTrackInput
    /\ state.kind = "Finished"
    /\ IsFinished
    /\ {"prev", "set_value", "next", "build"} \subseteq called
    /\ reads > FieldCount(rk) + 2

----------------------------------------------------------------------------
(* C8 *)

\* C8: build() returns the finished record (the values the builder holds) if
\* and only if every field of the builder holds a value; otherwise it returns
\* the completeness error of the first unset field in the field order.
C8_BuildCompleteness ==
    (last.op = "build") =>
        LET unset == {i \in 1..FieldCount(rk) : ~ValueOf(output_builder, Keys(rk)[i]).some}
            first == CHOOSE i \in unset : \A j \in unset : i <= j
        IN  /\ result.ok <=> (unset = {})
            /\ result.ok =>
                  /\ DOMAIN result.value = {KeyField(key) : key \in KeySet(rk)}
                  /\ \A key \in KeySet(rk) :
                        Some(ValueOf(result.value, key)) = ValueOf(output_builder, key)
            /\ ~result.ok => result.error = Keys(rk)[first]

\* build() on a track builder whose only unset field is the title
C8_Witness ==
    /\ rk = "track"
    /\ last.op = "build"
    /\ output_builder = [track_number |-> Some(Num(3)), disc_number |-> Some(Num(1)),
                         title |-> None]
    /\ result = Err("Title")

----------------------------------------------------------------------------
(* C9 *)

\* C9: prev() moves the cursor from a field to the previous field in the
\* order, from the first field to the first field, from Interrupted to the
\* first field, and from Finished to the last field, in both sequences.
C9_Prev ==
    (last.op = "prev") =>
        state.kind = IF last.from = "Interrupted" THEN At(rk, 1)
                     ELSE IF Pos(rk, last.from) = 1 THEN At(rk, 1)
                     ELSE At(rk, Pos(rk, last.from) - 1)

\* prev() called with the album cursor Finished
C9_Witness ==
    /\ rk = "album"
    /\ last = [op |-> "prev", from |-> "Finished"]
    /\ state.kind = "TotalDiscs"

----------------------------------------------------------------------------
(* C10 *)

\* C10: next() moves the cursor from a field to the next field in the order,
\* from the last field to Finished, and leaves an Interrupted or Finished
\* cursor as it is, in both sequences.
C10_Next ==
    (last.op = "next") =>
        state.kind = IF last.from \in {"Interrupted", "Finished"} THEN last.from
                     ELSE At(rk, Pos(rk, last.from) + 1)

\* next() called with the track cursor on the last field
C10_Witness ==
    /\ rk = "track"
    /\ last = [op |-> "next", from |-> "Title"]
    /\ state.kind = "Finished"

----------------------------------------------------------------------------
(* C11 *)

\* C11: interrupt() sets the cursor to Interrupted and finish() sets it to
\* Finished, whatever state the cursor was in, and neither changes the record
\* the field sequence holds.
C11_InterruptFinish ==
    [][/\ (last'.op = "interrupt") =>
             (state'.kind = "Interrupted" /\ state'.input = state.input)
       /\ (last'.op = "finish") =>
             (state'.kind = "Finished" /\ state'.input = state.input)]_vars

\* finish() called with the album cursor Interrupted
C11_Witness ==
    /\ rk = "album"
    /\ last = [op |-> "finish", from |-> "Interrupted"]
    /\ state.kind = "Finished"
    /\ state.input = [NoAlbumInput EXCEPT !.album = Some(Echoes), !.total_tracks = Some(Num(3))]

----------------------------------------------------------------------------
(* C13 *)

\* a decimal numeral: at least one digit, after at most one of the signs allowed
NumeralDigits(s) == IF s # <<>> /\ Head(s) \in {"+", "-"} THEN Tail(s) ELSE s

IsNumeral(s, signs) ==
    /\ NumeralDigits(s) # <<>>
    /\ \A i \in 1..Len(NumeralDigits(s)) : IsDigit(NumeralDigits(s)[i])
    /\ (s # <<>> /\ Head(s) \in {"+", "-"}) => Head(s) \in signs

RECURSIVE StripZeros(_)
StripZeros(m) == IF Len(m) > 1 /\ Head(m) = 0 THEN StripZeros(Tail(m)) ELSE m

\* the integer a numeral denotes
NumeralValue(s) ==
    LET mag == StripZeros([i \in 1..Len(NumeralDigits(s)) |-> DigitValue(NumeralDigits(s)[i])])
    IN  [neg |-> Head(s) = "-" /\ mag # <<0>>, mag |-> mag]

\* 0 <= n <= 2^32 - 1
InU32(n) == ~n.neg /\ MagLeq(n.mag, U32_MAX)

\* -2^31 <= n <= 2^31 - 1
InI32(n) == IF n.neg THEN MagLeq(n.mag, I32_MIN_MAG) ELSE MagLeq(n.mag, I32_MAX)

NumericKeys == {"Year", "TotalTracks", "TotalDiscs", "TrackNumber", "DiscNumber"}

\* C13 as stated: set_value on a text field succeeds for every string and
\* stores it; on a numeric field, the year included, it succeeds if and only if
\* the text is an integer in 0..2^32-1, and otherwise returns that field's error.
C13_NonNegativeRange ==
    (last.op = "set_value") =>
        /\ (last.key \in TextKeys) =>
              (last.result.ok /\ ValueOf(output_builder, last.key) = Some(last.value))
        /\ (last.key \in NumericKeys) =>
              /\ last.result.ok <=>
                    (IsNumeral(last.value, {"+", "-"}) /\ InU32(NumeralValue(last.value)))
              /\ ~last.result.ok => last.result.error.tag = last.key

\* C13 as amended: the four u32 fields accept exactly the numerals with an
\* optional "+" and a value in 0..2^32-1; the year, an i32, accepts exactly the
\* numerals with an optional "+" or "-" and a value in -2^31..2^31-1. An
\* accepted value is stored; a rejected text returns that field's error.
C13_FieldRanges ==
    (last.op = "set_value") =>
        /\ (last.key \in TextKeys) =>
              (last.result.ok /\ ValueOf(output_builder, last.key) = Some(last.value))
        /\ (last.key \in NumericKeys \ {"Year"}) =>
              (last.result.ok <=>
                  (IsNumeral(last.value, {"+"}) /\ InU32(NumeralValue(last.value))))
        /\ (last.key = "Year") =>
              (last.result.ok <=>
                  (IsNumeral(last.value, {"+", "-"}) /\ InI32(NumeralValue(last.value))))
        /\ (last.key \in NumericKeys /\ last.result.ok) =>
              ValueOf(output_builder, last.key) = Some(NumeralValue(last.value))
        /\ (last.key \in NumericKeys /\ ~last.result.ok) =>
              (last.result.error.tag = last.key /\ output_builder = last.before)

\* set_value(Year, "-1") on an album builder with no year
C13_Witness ==
    /\ rk = "album"
    /\ last.op = "set_value"
    /\ last.key = "Year"
    /\ last.value = <<"-", "1">>
    /\ last.before.year = None
    /\ last.result = Ok("unit")
    /\ output_builder.year = Some([neg |-> TRUE, mag |-> <<1>>])

----------------------------------------------------------------------------
(* C14 *)

\* C14: a submitted line is the back command iff its trimmed text is ":b", the
\* abort command iff its trimmed text is ":q", and data otherwise; an iteration
\* whose line is a command makes no set_value call: it calls prev() or
\* interrupt() only and the builder and the answers are as before.
C14_CommandTokens ==
    [][(LineRead /\ last'.outcome.ok) =>
          LET trimmed == Trim(last'.outcome.value)
          IN  /\ (last'.op = "back") <=> (trimmed = <<":", "b">>)
              /\ (last'.op = "exit") <=> (trimmed = <<":", "q">>)
              /\ (last'.op \in {"data_ok", "data_err"}) <=>
                    (trimmed \notin {<<":", "b">>, <<":", "q">>})
              /\ (last'.op \in {"data_ok", "data_err"}) =>
                    "set_value" \in called'
              /\ (last'.op \in {"back", "exit"}) =>
                    /\ output_builder' = output_builder
                    /\ answers' = answers
                    /\ called' \ called \subseteq {"prev", "interrupt"}]_vars

\* the line ":q " submitted at the first prompt of a track session
C14_Witness ==
    /\ rk = "track"
    /\ reads = 1
    /\ last.op = "exit"
    /\ last.outcome = Ok(<<":", "q", " ">>)
    /\ called = {"interrupt"}
    /\ state.kind = "Interrupted"

----------------------------------------------------------------------------
(* C15 *)

\* C15: a field of the builder's record that holds a value holds some value in
\* every later state of the session, whatever is read next.
C15_PresenceMonotonic ==
    [][\A key \in KeySet(rk) :
          ValueOf(output_builder, key).some => ValueOf(output_builder', key).some]_vars

\* a seeded track number after an invalid answer, a back command and an abort
C15_Witness ==
    /\ rk = "track"
    /\ state.input.track_number = Some(Num(3))
    /\ called = {"set_value", "prev", "interrupt"}
    /\ reads = 3
    /\ pc = "returned"
    /\ output_builder.track_number.some

----------------------------------------------------------------------------
(* C17 *)

\* C17: whenever a session ends with Finished, every field was answered and each
\* field of the returned record is the value of the most recent successfully
\* parsed answer given at that field's prompt; a seed is in the record only if
\* it was the last answer submitted there.
C17_LastAnswerWins ==
    IsFinished =>
        \A key \in KeySet(rk) :
            /\ answers[key].some
            /\ ValueOf(result.value.output, key) = Typed(key, answers[key].value)

\* track session seeded with track number 3: "1", back, " 2", "1", "Echoes"
C17_Witness ==
    /\ rk = "track"
    /\ state.input = [NoTrackInput EXCEPT !.track_number = Some(Num(3))]
    /\ reads = 5
    /\ called = {"set_value", "next", "prev", "build"}
    /\ answers = [k \in KeySet("track") |->
                     CASE k = "TrackNumber" -> Some(<<" ", "2">>)
                       [] k = "DiscNumber" -> Some(<<"1">>)
                       [] k = "Title" -> Some(Echoes)]
    /\ result = Finished([track_number |-> Num(2), disc_number |-> Num(1), title |-> Echoes])

----------------------------------------------------------------------------
(* C19 *)

\* C19: once the cursor is Interrupted or Finished the driver makes no further
\* transition call and no further line read, and returns on that iteration;
\* the driver never calls finish(), and the cursor becomes Finished only by
\* next() after a valid answer at the last field.
C19_Absorbing ==
    [][/\ (state.kind \in {"Interrupted", "Finished"}) =>
              /\ state' = state
              /\ reads' = reads
              /\ pc' = "returned"
              /\ called' \ called \subseteq {"build"}
       /\ "finish" \notin called'
       /\ (state'.kind = "Finished" /\ state.kind # "Finished") =>
              /\ state.kind = Keys(rk)[FieldCount(rk)]
              /\ last'.op = "data_ok"
              /\ "next" \in called']_vars

\* a track session aborted at its second prompt, after the driver returned
C19_Witness ==
    /\ rk = "track"
    /\ state.kind = "Interrupted"
    /\ pc = "returned"
    /\ result = Interrupted
    /\ last = [op |-> "return_interrupted", from |-> "Interrupted"]
    /\ reads = 2
    /\ called = {"set_value", "next", "interrupt"}

----------------------------------------------------------------------------
(* C20 *)

\* The generic machine over a field list of length n: a position 0..n-1 is a
\* field, n is Finished, and Interrupted is apart (written -1)
GenericLength(kind) == IF kind = "album" THEN 6 ELSE 3

GenericInterrupted == 0 - 1

GenericNext(n, a) ==
    IF a = GenericInterrupted THEN GenericInterrupted
    ELSE IF a = n THEN n
    ELSE a + 1

GenericPrev(n, a) ==
    IF a = GenericInterrupted THEN 0
    ELSE IF a = n THEN n - 1
    ELSE IF a = 0 THEN 0
    ELSE a - 1

\* the generic state a cursor of the hand-written tables stands for
Abstract(kind, k) ==
    IF k = "Interrupted" THEN GenericInterrupted
    ELSE IF k = "Finished" THEN Len(Keys(kind))
    ELSE (CHOOSE i \in 1..Len(Keys(kind)) : Keys(kind)[i] = k) - 1

\* C20: with the cursor read as a position in the kind's field list, every
\* next() and prev() step of the album table and of the track table is the
\* step of the one generic machine over a list of length n (album 6, track 3),
\* and the field lists have these lengths and no repeated field.
C20_RefinesGeneric ==
    [][/\ Len(Keys(rk)) = GenericLength(rk)
       /\ \A i, j \in 1..Len(Keys(rk)) : Keys(rk)[i] = Keys(rk)[j] => i = j
       /\ (last'.op = "next") =>
              Abstract(rk, state'.kind)
                  = GenericNext(GenericLength(rk), Abstract(rk, state.kind))
       /\ (last'.op = "prev") =>
              Abstract(rk, state'.kind)
                  = GenericPrev(GenericLength(rk), Abstract(rk, state.kind))
       /\ state'.input = state.input]_vars

\* prev() called with the album cursor on the fourth field
C20_Witness ==
    /\ rk = "album"
    /\ last = [op |-> "prev", from |-> "Year"]
    /\ state.kind = "Album"
    /\ Abstract(rk, state.kind) = 2

----------------------------------------------------------------------------
(* C18 *)

FieldsOf(kind) == {Keys(kind)[i] : i \in 1..Len(Keys(kind))}

LastField(kind) == Keys(kind)[Len(Keys(kind))]

ReadOps == {"data_ok", "data_err", "back", "exit", "read_error"}

\* every iteration with the cursor on a field reads exactly one line, no other does
C18_OneReadPerIteration ==
    [][IF state.kind \in FieldsOf(rk)
       THEN last'.op \in ReadOps /\ reads' = (IF reads < MaxReads THEN reads + 1 ELSE reads)
       ELSE last'.op \notin ReadOps /\ reads' = reads]_vars

\* a valid answer given first or right after a back command, and every back
\* command, leaves the loop running with the cursor on a field: an input that
\* alternates valid answers and back commands never ends the loop
C18_AlternationRuns ==
    [][/\ (last'.op = "back") =>
              (pc' = "loop" /\ state'.kind \in FieldsOf(rk) \ {LastField(rk)})
       /\ (last'.op = "data_ok" /\ last.op \in {"new", "back"}) =>
              (pc' = "loop" /\ state'.kind \in FieldsOf(rk))]_vars

\* C18: run reads exactly one line per iteration while the cursor is on a
\* field; it returns once an abort or end of input is delivered, and it returns
\* if back commands and invalid answers stop coming; it returns Finished or
\* Interrupted unless a read failed; and under an input alternating valid
\* answers and back commands it never returns.
C18_Termination ==
    /\ C18_OneReadPerIteration
    /\ (last.op = "exit") ~> (pc = "returned")
    /\ <>[](last.op \notin {"back", "data_err"}) => <>(pc = "returned")
    /\ []((pc = "returned" /\ last.op # "read_error") =>
              (result = Interrupted \/ IsFinished))
    /\ C18_AlternationRuns

\* a track session still in its loop after more than MaxReads reads of
\* valid answers and back commands only
C18_Witness ==
    /\ rk = "track"
    /\ pc = "loop"
    /\ reads = MaxReads
    /\ called = {"set_value", "next", "prev"}
    /\ allValid = FALSE
    /\ last.op = "back"
    /\ state.kind = "TrackNumber"
    /\ answers["DiscNumber"].some

----------------------------------------------------------------------------
(* C12 *)

\* the number of inserts of a value made under a key
InsertCount(key, value) ==
    Cardinality({i \in 1..Len(inserted) : inserted[i] = <<key, value>>})

\* C12: most_common(key) returns nothing if no insert was made under the key;
\* otherwise it returns a value inserted under the key at least as often as
\* every other value was; inserts under other keys play no part.
C12_MostCommon ==
    (last.op = "most_common") =>
        IF \A i \in 1..Len(inserted) : inserted[i][1] # last.key
        THEN last.result = None
        ELSE /\ last.result.some
             /\ InsertCount(last.key, last.result.value) >= 1
             /\ \A value \in CounterValues :
                    InsertCount(last.key, last.result.value) >= InsertCount(last.key, value)

\* Artist: "Pink Floyd", "Pink Floyd", "Genesis", with an insert under Album between
C12_Witness ==
    /\ inserted = << <<"Artist", "Pink Floyd">>, <<"Album", "Genesis">>,
                     <<"Artist", "Pink Floyd">>, <<"Artist", "Genesis">> >>
    /\ last = [op |-> "most_common", key |-> "Artist", result |-> Some("Pink Floyd")]

----------------------------------------------------------------------------
(* C16 *)

\* the session starts and returns of a run that edits every file of the list
RECURSIVE TrackSessions(_)
TrackSessions(input) ==
    IF input = <<>> THEN <<>>
    ELSE TrackSessions(SubSeq(input, 1, Len(input) - 1))
            \o << [ev |-> "start", kind |-> "track", path |-> input[Len(input)].path],
                  [ev |-> "return", kind |-> "track", path |-> input[Len(input)].path] >>

AllSessions(input) ==
    << [ev |-> "start", kind |-> "album"], [ev |-> "return", kind |-> "album"] >>
        \o TrackSessions(input)

\* C16: the sessions of app::run start and return in the order album, then one
\* track session per file in the order of the file list, each returned before
\* the next starts; a session is running only between its start and its
\* return, it is of the kind last started, and a track session is seeded from
\* its own file.
C16_SessionsInOrder ==
    LET n == Len(app.sessions)
    IN  (app.pc \notin {"none", "find"}) =>
            /\ n <= Len(AllSessions(app.input))
            /\ \A i \in 1..n : app.sessions[i] = AllSessions(app.input)[i]
            /\ (pc \in {"loop", "returned"}) <=> (n % 2 = 1)
            /\ (n % 2 = 1) =>
                   /\ rk = app.sessions[n].kind
                   /\ (rk = "track") => state.input = TrackInputFrom(app.input[(n - 1) \div 2])
            /\ \A k \in 1..Len(app.output) : app.output[k].path = app.input[k].path

\* both sessions of the files "b.mp3", "a.mp3" have returned Finished
C16_Witness ==
    /\ app.pc = "confirm"
    /\ app.input = <<BareFile, TaggedFile>>
    /\ app.sessions = AllSessions(<<BareFile, TaggedFile>>)
    /\ Len(app.output) = 2

----------------------------------------------------------------------------
(* C22 *)

\* C22: for a cursor on a field s, prev() right after next() gives s again
\* (from the last field by way of Finished); next() right after prev() gives s
\* again unless s is the first field, where it gives the second field.
C22_RoundTrips ==
    [][/\ (last.op = "next" /\ last.from \in FieldsOf(rk) /\ last'.op = "prev") =>
              state'.kind = last.from
       /\ (last.op = "prev" /\ last.from \in FieldsOf(rk) /\ last'.op = "next") =>
              state'.kind = IF last.from = Keys(rk)[1] THEN Keys(rk)[2] ELSE last.from]_vars

\* the track cursor back on the last field after next() and then prev()
C22_Witness ==
    /\ rk = "track"
    /\ called = {"next", "prev"}
    /\ last = [op |-> "prev", from |-> "Finished"]
    /\ state.kind = "Title"

----------------------------------------------------------------------------
(* C26 *)

\* C26: when a line read fails with an error other than interrupt or end of
\* input, run returns EditorError::Readline on that iteration: the cursor and
\* the builder are as before, no method of the state or the builder is called
\* (no set_value, no build), and the result is neither Finished nor Interrupted.
C26_ReadErrorReturns ==
    [][(LineRead /\ ~last'.outcome.ok /\ last'.outcome.error \notin {"Interrupted", "Eof"}) =>
          /\ pc' = "returned"
          /\ result' = Err([tag |-> "Readline", source |-> last'.outcome.error])
          /\ state' = state
          /\ output_builder' = output_builder
          /\ called' = called
          /\ ~result'.ok]_vars

\* a track session whose third read fails, after two accepted answers
C26_Witness ==
    /\ rk = "track"
    /\ reads = 3
    /\ pc = "returned"
    /\ last.op = "read_error"
    /\ last.outcome = Err("Io")
    /\ state.kind = "Title"
    /\ called = {"set_value", "next"}
    /\ result = Err([tag |-> "Readline", source |-> "Io"])

----------------------------------------------------------------------------
(* C23 *)

\* C23: the record the field sequence holds is never changed: not by a step
\* of a session (set_value, next, prev, interrupt) and not by any of next,
\* prev, interrupt or finish called on the state as it is; and the hint of
\* every prompt is the value that record holds for the prompt's field (empty
\* when it holds none), whatever the builder has accepted.
C23_SeedCopyFixed ==
    [][/\ state'.input = state.input
       /\ StateNext(rk, state).input = state.input
       /\ StatePrev(rk, state).input = state.input
       /\ StateInterrupt(rk, state).input = state.input
       /\ StateFinish(rk, state).input = state.input
       /\ LineRead =>
              /\ last'.key = state.kind
              /\ last'.default_value = HintOf(last'.key, ValueOf(state.input, last'.key))]_vars

\* a track seeded with track number 3: " 2" accepted, back, and the prompt
\* shows 3 again while the builder holds 2
C23_Witness ==
    /\ rk = "track"
    /\ reads = 3
    /\ called = {"set_value", "next", "prev"}
    /\ state.input.track_number = Some(Num(3))
    /\ output_builder.track_number = Some(Num(2))
    /\ last.key = "TrackNumber"
    /\ last.op = "data_err"
    /\ last.default_value = [left |-> <<"3">>, right |-> <<>>]

----------------------------------------------------------------------------
(* C24 *)

IsBlank(s) == \A i \in 1..Len(s) : s[i] \in {" ", "\t", "\n", "\r"}

NoOuterWhitespace(s) ==
    s = <<>> \/ (~IsBlank(<<s[1]>>) /\ ~IsBlank(<<s[Len(s)]>>))

\* v is the line without the whitespace around it
IsLineTrimmed(v, line) ==
    /\ NoOuterWhitespace(v)
    /\ \E a \in 0..Len(line) :
          /\ a + Len(v) <= Len(line)
          /\ IsBlank(SubSeq(line, 1, a))
          /\ SubSeq(line, a + 1, a + Len(v)) = v
          /\ IsBlank(SubSeq(line, a + Len(v) + 1, Len(line)))

\* C24: a line of data at a text prompt is accepted and stored without the
\* whitespace around it, a blank line as the empty string; a blank line at a
\* numeric prompt is a parse error and changes nothing; and no text field of
\* a record returned as Finished has whitespace at either end or is ":b" or ":q".
C24_TrimmedText ==
    /\ [][(LineRead /\ last'.op \in {"data_ok", "data_err"}) =>
              /\ (last'.key \in TextKeys) =>
                    /\ last'.op = "data_ok"
                    /\ ValueOf(output_builder', last'.key).some
                    /\ IsLineTrimmed(ValueOf(output_builder', last'.key).value,
                                     last'.outcome.value)
              /\ (last'.key \in TextKeys /\ IsBlank(last'.outcome.value)) =>
                    ValueOf(output_builder', last'.key) = Some(<<>>)
              /\ (last'.key \in NumericKeys /\ IsBlank(last'.outcome.value)) =>
                    (last'.op = "data_err" /\ output_builder' = output_builder)]_vars
    /\ [](IsFinished =>
              \A key \in TextKeys \cap KeySet(rk) :
                  /\ NoOuterWhitespace(ValueOf(result.value.output, key))
                  /\ ValueOf(result.value.output, key) \notin {<<":", "b">>, <<":", "q">>})

\* a line of one space accepted at the album's first prompt
C24_Witness ==
    /\ rk = "album"
    /\ reads = 1
    /\ last.op = "data_ok"
    /\ last.key = "Artist"
    /\ last.outcome = Ok(<<" ">>)
    /\ output_builder.artist = Some(<<>>)
    /\ state.kind = "AlbumArtist"

----------------------------------------------------------------------------
(* C25 *)

PathsOf(files) == [i \in 1..Len(files) |-> files[i].path]

IsPrefix(s, t) == Len(s) <= Len(t) /\ SubSeq(t, 1, Len(s)) = s

\* the running session has returned Interrupted and run has not matched on it yet
SessionInterrupted == app.pc \in {"album", "track"} /\ pc = "returned" /\ result = Interrupted

\* C25: a file is written only after the album session and every track session
\* returned Finished and the answer read last, trimmed, was "y"; the files are
\* written in the order of the list. When a session returns Interrupted, run
\* returns Ok with nothing written, and a run that has returned does nothing
\* more. The answer "n" returns Ok with nothing written, "y" starts the writes,
\* any other answer asks again; a failed write returns the error and leaves
\* the files written before it written.
C25_WritesOnlyWhenConfirmed ==
    /\ []((app.pc # "none" /\ app.written # <<>>) =>
              /\ app.sessions = AllSessions(app.input)
              /\ Len(app.output) = Len(app.input)
              /\ app.answer.some
              /\ \E a \in 0..2, b \in 0..2 :
                    /\ a + 1 + b = Len(app.answer.value)
                    /\ IsBlank(SubSeq(app.answer.value, 1, a))
                    /\ app.answer.value[a + 1] = "y"
                    /\ IsBlank(SubSeq(app.answer.value, a + 2, a + 1 + b))
              /\ IsPrefix(app.written, PathsOf(app.input)))
    /\ [][/\ app.pc # "returned"
          /\ SessionInterrupted =>
                /\ app'.pc = "returned"
                /\ app'.ret = Some(Ok("unit"))
                /\ app'.written = <<>>
                /\ Len(app'.sessions) % 2 = 0
          /\ (app.pc = "confirm" /\ app'.answer # app.answer) =>
                LET t == app'.answer.value
                IN  /\ app'.written = <<>>
                    /\ (t = <<"y", "\n">>) => app'.pc = "write"
                    /\ (t = <<" ", "n", "\n">>) =>
                           (app'.pc = "returned" /\ app'.ret = Some(Ok("unit")))
                    /\ (t \in {<<"x", "\n">>, <<"\n">>}) => app'.pc = "confirm"
          /\ (app.pc = "write") =>
                \/ /\ app'.written = Append(app.written, app.input[Len(app.written) + 1].path)
                   /\ app'.pc = IF Len(app'.written) = Len(app.input)
                                THEN "returned" ELSE "write"
                   /\ (app'.pc = "returned") => app'.ret = Some(Ok("unit"))
                \/ /\ app'.written = app.written
                   /\ app'.pc = "returned"
                   /\ ~app'.ret.value.ok]_vars

\* the second write failed, after a wrong answer and then "y"; the first file is written
C25_Witness ==
    /\ app.pc = "returned"
    /\ app.input = <<BareFile, TaggedFile>>
    /\ app.wrong
    /\ app.answer = Some(<<"y", "\n">>)
    /\ app.written = <<"b.mp3">>
    /\ app.ret = Some(Err([tag |-> "WriteFile"]))

----------------------------------------------------------------------------
(* C21 *)

\* the files of the list that have a value for the field of key
Candidates(key) == {i \in 1..Len(app.input) : ValueOf(app.input[i], key).some}

\* the number of candidates with the value v
Occurrences(key, v) ==
    Cardinality({i \in Candidates(key) : ValueOf(app.input[i], key).value = v})

\* C21: from_file_input seeds each album field with a value that no other
\* value exceeds in occurrences among the files that have the field, and
\* leaves the field absent exactly when no file has it; TrackInput::from
\* takes track number, disc number and title from the file itself.
C21_Seeds ==
    /\ (last.op = "from_file_input") =>
          \A i \in 1..Len(AlbumKeys) :
              LET key == AlbumKeys[i]
                  seed == ValueOf(output_builder, key)
              IN  /\ seed.some <=> (Candidates(key) # {})
                  /\ seed.some =>
                        /\ Occurrences(key, seed.value) >= 1
                        /\ \A c \in Candidates(key) :
                              Occurrences(key, seed.value)
                                  >= Occurrences(key, ValueOf(app.input[c], key).value)
    /\ (last.op = "track_input_from") =>
          /\ output_builder.track_number = app.input[last.index].track_number
          /\ output_builder.disc_number = app.input[last.index].disc_number
          /\ output_builder.title = app.input[last.index].title

\* three files: two of the artist "Echoes" and one of "1", years -1, 3, 3
C21_Witness ==
    /\ last.op = "from_file_input"
    /\ Len(app.input) = 3
    /\ PathsOf(app.input) = <<"1.mp3", "2.mp3", "3.mp3">>
    /\ output_builder = [artist |-> Some(Echoes), album_artist |-> Some(<<"1">>),
                         album |-> Some(Echoes), year |-> Some(Num(3)),
                         total_tracks |-> Some(Num(3)), total_discs |-> Some(Num(1))]

====
